---------------------------- MODULE Spec2Model ----------------------------
(***************************************************************************)
(* Model of the response normaliser of phoenix_response_fix.py.            *)
(*                                                                         *)
(* JSON values are tagged records.  A Python dict is a function from the   *)
(* keys it holds to their values, a list is a sequence.  transform_response*)
(* works on Python objects: `response.copy()` is a shallow copy, so the    *)
(* list stored under "choices", every choice in it and every message are   *)
(* shared between the caller's object and the returned one.  The model     *)
(* therefore computes, for one call, both the returned value and the value *)
(* the caller's argument holds after the call.                             *)
(***************************************************************************)
EXTENDS Naturals, Sequences, FiniteSets, TLC

VARIABLES
    response,   \* the caller's response object, as the caller sees it now
    original,   \* the value of that object before any call (history)
    result,     \* the value returned by transform_response(response)
    again,      \* the value returned by transform_response(result)
    aliased,    \* whether `result` is the very object `response`
    pc,         \* the position of the script that is running
    data,       \* the value extract_content_path is called on
    path,       \* the path text it is called with
    extracted,  \* the value the walk ended with (content, result, output_value)
    checked,    \* the outcomes of the further paths a script tries, in order
    upstream,   \* what the original openai.chat.completions.create returns
    returned,   \* what the patched create returns to its caller
    environ,    \* os.environ, the keys the fix script sets
    modules,    \* what the host process can import, and what is patched
    client_patched,     \* main's local of that name
    middleware_added,   \* main's local of that name
    success,    \* what main returned
    exit_code,  \* the status the process exited with
    steps,      \* the functions main has called so far, in order
    trace_data, \* the trace the patched handle_llm_trace is called with
    handler_result,     \* what the original handle_llm_trace does with it
    handler_calls,      \* the arguments of the calls of the original, in order
    trace_returned,     \* what the patched handle_llm_trace gave its caller
    script,     \* the diagnostic script that was started
    argv,       \* its command-line arguments
    key_env,    \* INFERENCE_KEY in the environment of the process
    url_env,    \* INFERENCE_URL in the environment of the process
    INFERENCE_KEY,      \* the module global of that name
    pending,    \* the functions __main__ has still to call
    called,     \* the functions it has called
    sent,       \* the functions that sent a request to the inference endpoint
    status,     \* the exit status of the process
    container,  \* the .output-container element of the page
    interval_active,    \* whether the hook's interval is still set
    ticks,      \* how many times the interval callback has run
    lookups,    \* how many times the hook fetched /api/v1/llm-traces
    emptyContent,       \* the hook's constant of that name, once a tick set it
    fetching,   \* where the promise chain of the lookup stands
    latest,     \* the trace details the lookup received
    inserted    \* the text the hook put into the container

normVars == <<response, original, result, again, aliased>>

extractVars == <<data, path, extracted, checked>>

clientVars == <<upstream, returned>>

mainVars ==
    <<environ, modules, client_patched, middleware_added, success, exit_code, steps>>

\* The variables of the scripts modelled further down.
traceVars == <<trace_data, handler_result, handler_calls, trace_returned>>

scriptVars ==
    <<script, argv, key_env, url_env, INFERENCE_KEY, pending, called, sent, status>>

hookVars ==
    <<container, interval_active, ticks, lookups, emptyContent, fetching, latest, inserted>>

laterVars == <<mainVars, traceVars, scriptVars, hookVars>>

vars == <<response, original, result, again, aliased, pc,
          data, path, extracted, checked, upstream, returned, laterVars>>

---------------------------------------------------------------------------
(* Bounds                                                                   *)

MaxChoices == 2

\* How many times the interval callback of the UI hook may run.
MaxTicks == 3

---------------------------------------------------------------------------
(* JSON values                                                              *)

Null == [t |-> "null"]

Bool(b) == [t |-> "bool", b |-> b]

Num(n) == [t |-> "num", n |-> n]

Str(s) == [t |-> "str", s |-> s]

List(xs) == [t |-> "list", xs |-> xs]

Dict(m) == [t |-> "dict", m |-> m]

\* The value of a variable that holds nothing yet (no call was made).
Unset == [t |-> "unset"]

EmptyMap == [k \in {} |-> Null]

\* d[k] = v on a dict's mapping (adds the key or replaces its value).
Put(m, k, v) == (k :> v) @@ m

\* isinstance(v, dict)
IsDict(v) == v.t = "dict"

\* k in v, for a value already known to be a dict
In(k, v) == k \in DOMAIN v.m

\* Python truth value of a JSON value (`not transformed["choices"]`).
Truthy(v) ==
    CASE v.t = "null" -> FALSE
      [] v.t = "bool" -> v.b
      [] v.t = "num"  -> v.n # 0
      [] v.t = "str"  -> v.s # ""
      [] v.t = "list" -> v.xs # <<>>
      [] v.t = "dict" -> DOMAIN v.m # {}

\* Whether enumerate(v) succeeds: lists, strings and dicts are iterable,
\* numbers and booleans raise TypeError.
Iterable(v) == v.t \in {"list", "str", "dict"}

---------------------------------------------------------------------------
(* transform_response                                                       *)

SENTINEL == "__phoenix_processed__"

empty_content == Str("No content available")

\* Faulty variant: tests the value under the sentinel key, not its presence.
early_return_truthy_mutant(r) == ~IsDict(r) \/ (In(SENTINEL, r) /\ Truthy(r.m[SENTINEL]))

\* The guard of the early return: not a dict, or already processed.
early_return(r) == ~IsDict(r) \/ In(SENTINEL, r)

\* Faulty variant: a bare `return`, which yields None.
return_none_mutant(r) == [ret |-> Null, arg |-> r, same |-> FALSE]

\* `return response`: the caller's own object, untouched at top level.
return_response(r) == [ret |-> r, arg |-> r, same |-> TRUE]

\* "message" in choice and isinstance(choice["message"], dict)
\*     and "content" in choice["message"]
has_message_content(choice) ==
    /\ In("message", choice)
    /\ IsDict(choice.m["message"])
    /\ In("content", choice.m["message"])

\* Faulty variant: writes text without testing whether it is there.
backfill_text_overwrite_mutant(choice) ==
    Dict(Put(choice.m, "text", choice.m["message"].m["content"]))

\* Faulty variant: copies the message instead of its content.
backfill_text_whole_message_mutant(choice) ==
    IF ~In("text", choice)
    THEN Dict(Put(choice.m, "text", choice.m["message"]))
    ELSE choice

\* First branch: message.content is there, make sure text is there too.
backfill_text(choice) ==
    IF ~In("text", choice)
    THEN Dict(Put(choice.m, "text", choice.m["message"].m["content"]))
    ELSE choice

\* Faulty variant: replaces the message even when it is a dict.
backfill_message_replace_mutant(choice) ==
    Dict(Put(choice.m, "message",
             Dict([role |-> Str("assistant"), content |-> choice.m["text"]])))

\* Faulty variant: the `elif "content" not in` branch is missing.
backfill_message_no_elif_mutant(choice) ==
    IF ~In("message", choice) \/ ~IsDict(choice.m["message"])
    THEN Dict(Put(choice.m, "message",
                  Dict([role |-> Str("assistant"), content |-> choice.m["text"]])))
    ELSE choice

\* Second branch: text is there, message.content is not.
backfill_message(choice) ==
    IF ~In("message", choice) \/ ~IsDict(choice.m["message"])
    THEN Dict(Put(choice.m, "message",
                  Dict([role |-> Str("assistant"), content |-> choice.m["text"]])))
    ELSE IF ~In("content", choice.m["message"])
    THEN Dict(Put(choice.m, "message",
                  Dict(Put(choice.m["message"].m, "content", choice.m["text"]))))
    ELSE choice

\* Faulty variant: the placeholder goes to text only.
fallback_text_only_mutant(choice) == Dict(Put(choice.m, "text", empty_content))

\* Third branch: neither text nor message.content.
fallback(choice) ==
    Dict(Put(Put(choice.m, "text", empty_content), "message",
             Dict([role |-> Str("assistant"), content |-> empty_content])))

\* Faulty variant: the message.content branch is missing.
process_choice_text_first_mutant(choice) ==
    IF ~IsDict(choice) THEN choice
    ELSE IF In("text", choice) THEN backfill_message(choice)
    ELSE fallback(choice)

\* The body of the loop for one element of choices: the element as it is
\* after the iteration (a dict is changed in place).
process_choice(choice) ==
    IF ~IsDict(choice) THEN choice
    ELSE IF has_message_content(choice) THEN backfill_text(choice)
    ELSE IF In("text", choice) THEN backfill_message(choice)
    ELSE fallback(choice)

\* Faulty variant: `break` instead of `continue` at a choice that is not a
\* dict, so the choices after it are not looked at.
process_choices_break_mutant(choices) ==
    IF choices.t = "list"
    THEN List([i \in 1..Len(choices.xs) |->
                 IF \E k \in 1..i : ~IsDict(choices.xs[k])
                 THEN choices.xs[i]
                 ELSE process_choice(choices.xs[i])])
    ELSE choices

\* Faulty variant: only choices[0] is processed.
process_choices_first_only_mutant(choices) ==
    IF choices.t = "list"
    THEN List([i \in 1..Len(choices.xs) |->
                 IF i = 1 THEN process_choice(choices.xs[i]) ELSE choices.xs[i]])
    ELSE choices

\* The loop over enumerate(transformed["choices"]).  Iterating a string
\* yields its characters and iterating a dict yields its keys: none of
\* them is a dict, every iteration takes `continue`, nothing changes.
process_choices(choices) ==
    IF choices.t = "list"
    THEN List([i \in 1..Len(choices.xs) |-> process_choice(choices.xs[i])])
    ELSE choices

\* transformed = response.copy(); transformed[SENTINEL] = True
mark_processed(r) == Dict(Put(r.m, SENTINEL, Bool(TRUE)))

\* The early exit for a response without choices to process.
no_choices(transformed) ==
    ~In("choices", transformed) \/ ~Truthy(transformed.m["choices"])

\* Faulty variant: the early exit supplies an empty choices array.
return_transformed_add_choices_mutant(transformed, r) ==
    [ret |-> Dict(Put(transformed.m, "choices", List(<<>>))), arg |-> r, same |-> FALSE]

\* `return transformed` on the early exit: the marked copy goes back, the
\* caller's object is as it was.
return_transformed(transformed, r) == [ret |-> transformed, arg |-> r, same |-> FALSE]

\* An exception that leaves the call instead of a returned value.
Raised(exc) == [t |-> "raised", exc |-> exc]

\* Faulty variant: the handler names one exception class only.
handler_catches_key_error_mutant(exc) == exc = "KeyError"

\* `except Exception`: every exception raised in the try block is caught.
handler_catches(exc) == exc \in {"TypeError", "KeyError", "AttributeError", "IndexError"}

\* An exception raised inside the try block: the handler logs it and
\* returns the original response; uncaught, it leaves the call.
on_exception(r, exc) ==
    IF handler_catches(exc) THEN return_response(r)
    ELSE [ret |-> Raised(exc), arg |-> r, same |-> FALSE]

\* One call.  ret: the value returned; arg: the value of the caller's
\* object after the call; same: whether ret is the caller's object itself.
transform_response(r) ==
    IF early_return(r) THEN return_response(r)
    ELSE LET transformed == mark_processed(r) IN
         IF no_choices(transformed)
         THEN return_transformed(transformed, r)
         ELSE IF ~Iterable(transformed.m["choices"])
         THEN on_exception(r, "TypeError")  \* enumerate() of a non-iterable
         ELSE LET done == process_choices(transformed.m["choices"]) IN
              [ret  |-> Dict(Put(transformed.m, "choices", done)),
               arg  |-> Dict(Put(r.m, "choices", done)),
               same |-> FALSE]

---------------------------------------------------------------------------
(* Inputs                                                                   *)

Texts == {Str("T"), Null}

Contents == {Str("X"), Null}

Messages ==
    {Null} \cup
    {Dict(m) : m \in
        {EmptyMap} \cup {[role |-> Str("user")]}
        \cup {[content |-> c] : c \in Contents}
        \cup {[role |-> Str("user"), content |-> c] : c \in Contents}}

ChoiceDicts ==
    LET base == [index |-> Num(0)] IN
    {Dict(base)}
    \cup {Dict(Put(base, "text", t)) : t \in Texts}
    \cup {Dict(Put(base, "message", m)) : m \in Messages}
    \cup {Dict(Put(Put(base, "text", t), "message", m)) : t \in Texts, m \in Messages}

Choices == ChoiceDicts \cup {Str("junk")}

ChoiceLists ==
    UNION {[1..n -> Choices] : n \in 0..MaxChoices}

\* Values of "choices" that are not a list.
OddChoices == {Null, Num(0), Num(5), Bool(TRUE), Str("ab"), Dict([k |-> Dict([index |-> Num(0)])])}

ChoicesValues == {List(xs) : xs \in ChoiceLists} \cup OddChoices

Sentinels == {Bool(TRUE), Bool(FALSE)}

TopMaps ==
    LET ids == {EmptyMap, [id |-> Str("chatcmpl-123")]} IN
    LET withChoices == ids \cup {Put(m, "choices", c) : m \in ids, c \in ChoicesValues} IN
    withChoices \cup {Put(m, SENTINEL, s) : m \in withChoices, s \in Sentinels}

Responses == {Dict(m) : m \in TopMaps} \cup {Null, Str("text"), List(<<>>)}

---------------------------------------------------------------------------
(* Behaviour                                                                *)

\* The variables of the scripts that are not running.
NormIdle ==
    /\ response = Null /\ original = Null /\ result = Unset /\ again = Unset
    /\ aliased = FALSE

ExtractIdle == data = Null /\ path = "" /\ extracted = Unset /\ checked = <<>>

ClientIdle == upstream = Unset /\ returned = Unset

MainIdle ==
    /\ environ = <<>> /\ modules = <<>> /\ steps = <<>>
    /\ client_patched = Unset /\ middleware_added = Unset
    /\ success = Unset /\ exit_code = Unset

TraceIdle ==
    /\ trace_data = Unset /\ handler_result = Unset
    /\ handler_calls = <<>> /\ trace_returned = Unset

ScriptIdle ==
    /\ script = "" /\ argv = <<>> /\ key_env = Unset /\ url_env = Unset
    /\ INFERENCE_KEY = Unset /\ pending = <<>> /\ called = <<>> /\ sent = <<>>
    /\ status = Unset

HookIdle ==
    /\ container = "absent" /\ interval_active = FALSE /\ ticks = 0 /\ lookups = 0
    /\ emptyContent = Unset /\ fetching = "none" /\ latest = Unset /\ inserted = Unset

LaterIdle == MainIdle /\ TraceIdle /\ ScriptIdle /\ HookIdle

Init ==
    /\ response \in Responses
    /\ original = response
    /\ result = Unset
    /\ again = Unset
    /\ aliased = FALSE
    /\ pc = "ready"
    /\ ExtractIdle
    /\ ClientIdle
    /\ LaterIdle

\* transformed = transform_response(response)
Transform ==
    /\ pc = "ready"
    /\ LET call == transform_response(response) IN
        /\ result' = call.ret
        /\ response' = call.arg
        /\ aliased' = call.same
    /\ pc' = "normalized"
    /\ UNCHANGED <<laterVars, original, again, extractVars, clientVars>>

\* The caller's object after a call on `result` changed it to `arg`:
\* the same object when aliased, else a shallow copy sharing "choices".
shared_after(arg) ==
    IF aliased THEN arg
    ELSE IF IsDict(response) /\ In("choices", response)
            /\ IsDict(arg) /\ In("choices", arg)
    THEN Dict(Put(response.m, "choices", arg.m["choices"]))
    ELSE response

\* transform_response(transformed): the result is normalised once more
TransformAgain ==
    /\ pc = "normalized"
    /\ LET call == transform_response(result) IN
        /\ again' = call.ret
        /\ result' = call.arg
        /\ response' = shared_after(call.arg)
    /\ pc' = "renormalized"
    /\ UNCHANGED <<laterVars, original, aliased, extractVars, clientVars>>

Next == Transform \/ TransformAgain

Spec == Init /\ [][Next]_vars

---------------------------------------------------------------------------
(* Properties of transform_response                                         *)

\* The first call has returned and nothing else has happened since.
Normalized == pc = "normalized"

\* A dict whose "choices" is a list.
HasChoiceList(r) == IsDict(r) /\ In("choices", r) /\ r.m["choices"].t = "list"

\* A response the loop runs over: a dict not yet marked, with a list of
\* choices.
Unmarked(r) == HasChoiceList(r) /\ ~In(SENTINEL, r)

ChoicesOf(r) == r.m["choices"].xs

\* The result has a list of choices as long as the original's.
SameShape == HasChoiceList(result) /\ Len(ChoicesOf(result)) = Len(ChoicesOf(original))

Positions == 1..Len(ChoicesOf(original))

Before(i) == ChoicesOf(original)[i]

After(i) == ChoicesOf(result)[i]

\* The choice has a text field and a dict message with a content field.
HasBothFields(c) ==
    /\ In("text", c)
    /\ In("message", c) /\ IsDict(c.m["message"]) /\ In("content", c.m["message"])

\* The choice is a dict whose message is a dict with a content field.
HasContent(c) ==
    IsDict(c) /\ In("message", c) /\ IsDict(c.m["message"]) /\ In("content", c.m["message"])

ContentOf(c) == c.m["message"].m["content"]

Assistant(text) == Dict([role |-> Str("assistant"), content |-> text])

\* C1: normalising a normalised response changes nothing: the second call
\* returns a value equal to the one the first call returned, and leaves
\* that value as it was.
C1_Idempotent ==
    [][pc = "normalized" => again' = result /\ result' = result]_vars

C1_Witness ==
    /\ pc = "renormalized"
    /\ Unmarked(original)
    /\ result # original
    /\ \E i \in Positions : After(i) # Before(i)
    /\ again = result

\* C2 as stated: for every response with a non-empty list of choices, every
\* dict choice of the result has text and message.content.
C2_Original ==
    (Normalized /\ HasChoiceList(original) /\ ChoicesOf(original) # <<>>)
        => /\ SameShape
           /\ \A i \in Positions : IsDict(After(i)) => HasBothFields(After(i))

\* C2 amended: for every response that does not carry the sentinel and has
\* a non-empty list of choices, every dict choice of the result has a text
\* field and a dict message with a content field.
C2_FieldsPresent ==
    (Normalized /\ Unmarked(original) /\ ChoicesOf(original) # <<>>)
        => /\ SameShape
           /\ \A i \in Positions : IsDict(After(i)) => HasBothFields(After(i))

C2_Witness ==
    /\ Normalized /\ Unmarked(original)
    /\ \E i \in Positions :
          /\ IsDict(Before(i)) /\ In("text", Before(i))
          /\ In("message", Before(i)) /\ IsDict(Before(i).m["message"])
          /\ ~In("content", Before(i).m["message"])
          /\ HasBothFields(After(i))

\* C3 as stated: a choice with message.content = X before has text = X and
\* message.content = X after.
C3_Original ==
    (Normalized /\ HasChoiceList(original))
        => /\ SameShape
           /\ \A i \in Positions : HasContent(Before(i)) =>
                 /\ HasBothFields(After(i))
                 /\ After(i).m["text"] = ContentOf(Before(i))
                 /\ ContentOf(After(i)) = ContentOf(Before(i))

\* C3 amended: in a response that does not carry the sentinel, a choice with
\* message.content = X before has message.content = X after; its text is X
\* when it had no text before, and is the text it had otherwise.
C3_RoundTrip ==
    (Normalized /\ Unmarked(original))
        => /\ SameShape
           /\ \A i \in Positions : HasContent(Before(i)) =>
                 /\ HasBothFields(After(i))
                 /\ ContentOf(After(i)) = ContentOf(Before(i))
                 /\ After(i).m["text"] =
                        IF In("text", Before(i)) THEN Before(i).m["text"]
                        ELSE ContentOf(Before(i))

C3_Witness ==
    /\ Normalized /\ Unmarked(original)
    /\ \E i, j \in Positions :
          /\ HasContent(Before(i)) /\ ~In("text", Before(i))
          /\ ContentOf(Before(i)) = Str("X") /\ After(i).m["text"] = Str("X")
          /\ HasContent(Before(j)) /\ In("text", Before(j))
          /\ Before(j).m["text"] # ContentOf(Before(j))
          /\ After(j).m["text"] = Before(j).m["text"]

\* The choice is a dict with neither text nor message.content.
HasNeither(c) == IsDict(c) /\ ~In("text", c) /\ ~HasContent(c)

IsFallback(c) ==
    /\ HasBothFields(c)
    /\ c.m["text"] = empty_content
    /\ ContentOf(c) = empty_content
    /\ In("role", c.m["message"]) /\ c.m["message"].m["role"] = Str("assistant")

\* C4 as stated: every dict choice with neither text nor message.content
\* gets the placeholder in both and the role "assistant".
C4_Original ==
    (Normalized /\ HasChoiceList(original))
        => /\ SameShape
           /\ \A i \in Positions : HasNeither(Before(i)) => IsFallback(After(i))

\* C4 amended: in a response that does not carry the sentinel, every dict
\* choice with neither text nor message.content has, after the call,
\* text = "No content available", message.content = "No content available"
\* and message.role = "assistant".
C4_Fallback ==
    (Normalized /\ Unmarked(original))
        => /\ SameShape
           /\ \A i \in Positions : HasNeither(Before(i)) => IsFallback(After(i))

C4_Witness ==
    /\ Normalized /\ Unmarked(original)
    /\ \E i \in Positions :
          /\ Before(i) = Dict([index |-> Num(0)])
          /\ IsFallback(After(i))

\* The response has no choices to process: the key is absent or the list
\* is empty.
ChoicesAbsentOrEmpty(r) ==
    IsDict(r) /\ (~In("choices", r) \/ r.m["choices"] = List(<<>>))

\* C5 as stated: with choices absent or empty the value returned equals the
\* input, no key added or removed.
C5_Original ==
    (Normalized /\ ChoicesAbsentOrEmpty(original)) => result = original

\* C5 amended: with choices absent or empty the value returned is the input
\* with the key __phoenix_processed__ = true added when the input did not
\* carry that key, and the input itself otherwise; no other key is added,
\* removed or changed, and the caller's object is as it was.
C5_OnlySentinelAdded ==
    (Normalized /\ ChoicesAbsentOrEmpty(original))
        => /\ result = IF In(SENTINEL, original) THEN original
                       ELSE Dict(Put(original.m, SENTINEL, Bool(TRUE)))
           /\ response = original

C5_Witness ==
    /\ Normalized
    /\ original = Dict([choices |-> List(<<>>)])
    /\ result = Dict(Put([choices |-> List(<<>>)], SENTINEL, Bool(TRUE)))

\* C6: the call leaves the caller's response object as it was: after it
\* the object equals its value before the call.
C6_InputUnmodified == pc # "ready" => response = original

\* C7 as stated: every choice with message.content and no text has, after
\* the call, text = message.content and the message it had.
C7_Original ==
    (Normalized /\ HasChoiceList(original))
        => /\ SameShape
           /\ \A i \in Positions : (HasContent(Before(i)) /\ ~In("text", Before(i))) =>
                 /\ In("text", After(i))
                 /\ After(i).m["text"] = ContentOf(Before(i))
                 /\ After(i).m["message"] = Before(i).m["message"]

\* C7 amended: in a response that does not carry the sentinel, every choice
\* with message.content and no text has, after the call, text equal to
\* message.content and the same message as before.
C7_Rule1 ==
    (Normalized /\ Unmarked(original))
        => /\ SameShape
           /\ \A i \in Positions : (HasContent(Before(i)) /\ ~In("text", Before(i))) =>
                 /\ In("text", After(i))
                 /\ After(i).m["text"] = ContentOf(Before(i))
                 /\ After(i).m["message"] = Before(i).m["message"]

C7_Witness ==
    /\ Normalized /\ Unmarked(original)
    /\ \E i \in Positions :
          /\ Before(i) = Dict([index |-> Num(0),
                               message |-> Dict([role |-> Str("user"), content |-> Str("X")])])
          /\ After(i).m["text"] = Str("X")

\* The choice is a dict with text and without a well-formed message.content.
TextOnly(c) == IsDict(c) /\ In("text", c) /\ ~HasContent(c)

\* The choice's message is a dict (one that holds no content, for TextOnly).
MessageIsDict(c) == In("message", c) /\ IsDict(c.m["message"])

\* C8 as stated: every choice with text and without a well-formed
\* message.content has, after the call, message = {role: "assistant",
\* content: text} and the text it had.
C8_Original ==
    (Normalized /\ HasChoiceList(original))
        => /\ SameShape
           /\ \A i \in Positions : TextOnly(Before(i)) =>
                 /\ HasBothFields(After(i))
                 /\ After(i).m["text"] = Before(i).m["text"]
                 /\ After(i).m["message"] = Assistant(Before(i).m["text"])

\* C8 amended: in a response that does not carry the sentinel, every choice
\* with text and without a well-formed message.content keeps its text; its
\* message becomes {role: "assistant", content: text} when the message was
\* missing or not a mapping, and when the message was a mapping without
\* content it is that mapping with content = text added, its other fields
\* kept.
C8_Rule2 ==
    (Normalized /\ Unmarked(original))
        => /\ SameShape
           /\ \A i \in Positions : TextOnly(Before(i)) =>
                 /\ HasBothFields(After(i))
                 /\ After(i).m["text"] = Before(i).m["text"]
                 /\ After(i).m["message"] =
                        IF MessageIsDict(Before(i))
                        THEN Dict(Put(Before(i).m["message"].m, "content", Before(i).m["text"]))
                        ELSE Assistant(Before(i).m["text"])

C8_Witness ==
    /\ Normalized /\ Unmarked(original)
    /\ \E i, j \in Positions :
          /\ Before(i) = Dict([index |-> Num(0), text |-> Str("T"),
                               message |-> Dict([role |-> Str("user")])])
          /\ After(i).m["message"] = Dict([role |-> Str("user"), content |-> Str("T")])
          /\ Before(j) = Dict([index |-> Num(0), text |-> Str("T")])
          /\ After(j).m["message"] = Assistant(Str("T"))

\* C9: a choice that has both text and message.content before the call is
\* the same after it, field for field.
C9_Rule4 ==
    (Normalized /\ HasChoiceList(original))
        => /\ SameShape
           /\ \A i \in Positions :
                 (HasContent(Before(i)) /\ In("text", Before(i))) => After(i) = Before(i)

C9_Witness ==
    /\ Normalized /\ Unmarked(original)
    /\ \E i, j \in Positions :
          /\ HasContent(Before(i)) /\ In("text", Before(i))
          /\ Before(i).m["text"] # ContentOf(Before(i))
          /\ After(i) = Before(i)
          /\ After(j) # Before(j)

\* C10: a response that carries the key __phoenix_processed__, whatever its
\* value and whatever its choices, is returned as it is and is not changed.
C10_SentinelUnchanged ==
    (Normalized /\ IsDict(original) /\ In(SENTINEL, original))
        => result = original /\ response = original /\ aliased

C10_Witness ==
    /\ Normalized
    /\ HasChoiceList(original) /\ In(SENTINEL, original)
    /\ original.m[SENTINEL] = Bool(FALSE)
    /\ \E i \in Positions : HasNeither(Before(i))
    /\ result = original

\* The response is a dict whose choices make enumerate() raise: a value
\* that is true and not iterable.
Unprocessable(r) ==
    /\ IsDict(r) /\ In("choices", r)
    /\ Truthy(r.m["choices"]) /\ ~Iterable(r.m["choices"])

\* C11: no exception leaves transform_response; an input that is not a
\* dict, or whose choices cannot be iterated, is returned as it was passed
\* in: the same object, unchanged.
C11_NeverRaises ==
    Normalized =>
        /\ result.t # "raised"
        /\ (~IsDict(original) \/ Unprocessable(original))
              => (result = original /\ response = original /\ aliased)

C11_Witness ==
    /\ Normalized
    /\ original = Dict([choices |-> Num(5)])
    /\ result = original /\ aliased

\* C12 as stated: a choice that is not a dict is unchanged at its position
\* and the other choices of the response are normalised.
C12_Original ==
    (Normalized /\ HasChoiceList(original)
        /\ \E i \in Positions : ~IsDict(Before(i)))
        => /\ SameShape
           /\ \A i \in Positions :
                 IF IsDict(Before(i)) THEN HasBothFields(After(i))
                 ELSE After(i) = Before(i)

\* C12 amended: a choice that is not a dict is skipped and is unchanged at
\* its position in the result; in a response that does not carry the
\* sentinel the other choices still get text and message.content.
C12_SkipNonDict ==
    (Normalized /\ HasChoiceList(original)
        /\ \E i \in Positions : ~IsDict(Before(i)))
        => /\ SameShape
           /\ \A i \in Positions :
                 IF IsDict(Before(i))
                 THEN Unmarked(original) => HasBothFields(After(i))
                 ELSE After(i) = Before(i)

C12_Witness ==
    /\ Normalized /\ Unmarked(original)
    /\ Len(ChoicesOf(original)) = 2
    /\ Before(1) = Str("junk") /\ After(1) = Str("junk")
    /\ Before(2) = Dict([index |-> Num(0)]) /\ IsFallback(After(2))

\* A response that agrees with r on choice i and on nothing else: no other
\* top-level key, and every other choice replaced by `other`.
AgreeingOn(r, i, other) ==
    Dict([choices |-> List([k \in 1..Len(ChoicesOf(r)) |->
                               IF k = i THEN ChoicesOf(r)[i] ELSE other])])

Others == {Str("junk"), Dict([index |-> Num(0)])}

\* Choice i of the result for that other response.
AfterIn(r, i) == ChoicesOf(transform_response(r).ret)[i]

\* C13 as stated: two responses that agree on choice i give results that
\* agree on choice i; the number and the order of the choices are kept.
C13_Original ==
    (Normalized /\ HasChoiceList(original))
        => /\ SameShape
           /\ \A i \in Positions : \A other \in Others :
                 After(i) = AfterIn(AgreeingOn(original, i, other), i)

\* C13 amended: two responses that do not carry the sentinel and agree on
\* choice i give results that agree on choice i; the number and the order
\* of the choices are kept.
C13_Independent ==
    (Normalized /\ Unmarked(original))
        => /\ SameShape
           /\ \A i \in Positions : \A other \in Others :
                 After(i) = AfterIn(AgreeingOn(original, i, other), i)

C13_Witness ==
    /\ Normalized /\ Unmarked(original)
    /\ Len(ChoicesOf(original)) = 2
    /\ Before(1) = Dict([index |-> Num(0), text |-> Str("T")])
    /\ Before(2) = Dict([index |-> Num(0)])
    /\ After(1) # Before(1) /\ After(2) # Before(2)
    /\ After(2) = AfterIn(AgreeingOn(original, 2, Str("junk")), 2)

---------------------------------------------------------------------------
(* The patched openai.chat.completions.create                               *)

\* A pydantic model object: it has model_dump(), which builds a fresh dict.
ModelObject(v) == [form |-> "model", dump |-> v]

\* A plain dict.
PlainDict(v) == [form |-> "dict", dump |-> v]

\* Anything else (neither model_dump nor a dict).
OtherObject == [form |-> "other", dump |-> Null]

\* wrapped_chat_completion_create, given what the original method returned.
\* For a model object the dump is transformed, the transformed dict is
\* dropped and the model object itself is returned, also when model_dump
\* or the transformation raises.
wrapped_chat_completion_create(res) ==
    IF res.form = "model"
    THEN LET transformed ==
                 IF res.dump.t = "raised" THEN res.dump
                 ELSE transform_response(res.dump).ret
         IN  res
    ELSE IF res.form = "dict"
    THEN PlainDict(transform_response(res.dump).ret)
    ELSE res

\* The completions the API sends: dicts with a list of choices and without
\* the sentinel key.
Completions ==
    {r \in Responses : IsDict(r) /\ In("choices", r) /\ r.m["choices"].t = "list"
                          /\ ~In(SENTINEL, r)}

Upstreams ==
    {ModelObject(v) : v \in Completions} \cup {PlainDict(v) : v \in Completions}
    \cup {ModelObject(Raised("ValueError")), OtherObject}

InitClient ==
    /\ NormIdle
    /\ ExtractIdle
    /\ LaterIdle
    /\ upstream \in Upstreams
    /\ returned = Unset
    /\ pc = "client_ready"

\* A caller calls the patched openai.chat.completions.create.
WrappedCreate ==
    /\ pc = "client_ready"
    /\ returned' = wrapped_chat_completion_create(upstream)
    /\ pc' = "client_returned"
    /\ UNCHANGED <<laterVars, normVars, extractVars, upstream>>

NextClient == WrappedCreate

SpecClient == InitClient /\ [][NextClient]_vars

\* C14: whatever form the underlying result takes, a dict or a model object
\* that dumps to a dict, every dict choice of the value the patched create
\* returns has text and message.content.
C14_WrapperFields ==
    (pc = "client_returned" /\ upstream.form \in {"model", "dict"}
        /\ upstream.dump.t = "dict")
        => /\ returned.form = upstream.form
           /\ HasChoiceList(returned.dump)
           /\ \A i \in 1..Len(ChoicesOf(returned.dump)) :
                 IsDict(ChoicesOf(returned.dump)[i])
                     => HasBothFields(ChoicesOf(returned.dump)[i])

---------------------------------------------------------------------------
(* extract_content_path (debug_api.py)                                      *)

MaxPieces == 2

Digits == {"0", "1", "2", "3", "4", "5", "6", "7", "8", "9"}

DigitValue ==
    ("0" :> 0) @@ ("1" :> 1) @@ ("2" :> 2) @@ ("3" :> 3) @@ ("4" :> 4) @@
    ("5" :> 5) @@ ("6" :> 6) @@ ("7" :> 7) @@ ("8" :> 8) @@ ("9" :> 9)

\* The i-th character of a string, as a string.
CharAt(s, i) == SubSeq(s, i, i)

\* s.replace(old, new), old one character
RECURSIVE replace(_, _, _)
replace(s, old, new) ==
    IF s = "" THEN ""
    ELSE (IF Head(s) = old THEN new ELSE Head(s)) \o replace(Tail(s), old, new)

\* s.split(sep): the pieces between the separators, empty ones included;
\* "".split(".") is [""].
RECURSIVE split(_, _)
split(s, sep) ==
    IF s = "" THEN <<"">>
    ELSE LET rest == split(Tail(s), sep) IN
         IF Head(s) = sep THEN <<"">> \o rest
         ELSE <<Head(s) \o Head(rest)>> \o Tail(rest)

\* Characters str.isdigit accepts and int rejects (superscript digits).
OtherDigits == {"²"}

\* part.isdigit(): not empty and digit characters only
isdigit(part) ==
    part # "" /\ \A i \in 1..Len(part) : CharAt(part, i) \in Digits \cup OtherDigits

\* int(part) accepts decimal digits only; it raises ValueError otherwise.
int_accepts(part) ==
    \A i \in 1..Len(part) : CharAt(part, i) \in Digits

\* int(part) for a string of digits
RECURSIVE int(_)
int(part) ==
    IF part = "" THEN 0
    ELSE int(SubSeq(part, 1, Len(part) - 1)) * 10 + DigitValue[CharAt(part, Len(part))]

\* Faulty variant: the closing brackets are not removed.
path_parts_keep_close_mutant(p) == split(replace(p, "[", "."), ".")

\* parts = path.replace(']', '').replace('[', '.').split('.')
path_parts(p) == split(replace(replace(p, "]", ""), "[", "."), ".")

\* type(v).__name__, as the exception messages quote it
type_name(v) ==
    CASE v.t = "null" -> "NoneType"
      [] v.t = "bool" -> "bool"
      [] v.t = "num"  -> "int"
      [] v.t = "str"  -> "str"
      [] v.t = "list" -> "list"
      [] v.t = "dict" -> "dict"

\* The handler's return value: f"Error accessing path: {e}"
error_string(message) == Str("Error accessing path: " \o message)

\* result.get(part) on a dict: the value under the key, None without it
dict_get(d, part) == IF part \in DOMAIN d.m THEN d.m[part] ELSE Null

\* Faulty variant: the None test is missing, the loop goes on.
is_none_never_mutant(v) == FALSE

\* Faulty variant: `if not result` instead of `if result is None`.
is_none_falsy_mutant(v) == ~Truthy(v)

\* result is None
is_none(v) == v = Null

\* except (KeyError, IndexError, TypeError, AttributeError)
extract_catches(exc) == exc \in {"KeyError", "IndexError", "TypeError", "AttributeError"}

\* The loop over parts; `current` is the variable `result` of the code, the
\* value reached so far.  Every exception of
\* the four classes the handler names ends the call with the error string;
\* any other exception leaves the call.
RECURSIVE walk(_, _)
walk(current, parts) ==
    IF parts = <<>> THEN current
    ELSE LET part == Head(parts) IN
         IF isdigit(part)
         THEN IF ~int_accepts(part)
              THEN (IF extract_catches("ValueError")
                    THEN error_string("invalid literal for int() with base 10: '"
                                          \o part \o "'")
                    ELSE Raised("ValueError"))
              ELSE
              LET n == int(part) IN
              CASE current.t = "list" ->
                      IF n < Len(current.xs) THEN walk(current.xs[n + 1], Tail(parts))
                      ELSE error_string("list index out of range")
                [] current.t = "str" ->
                      IF n < Len(current.s)
                      THEN walk(Str(CharAt(current.s, n + 1)), Tail(parts))
                      ELSE error_string("string index out of range")
                [] current.t = "dict" ->
                      \* KeyError: the keys of a JSON object are strings
                      error_string(ToString(n))
                [] OTHER ->
                      error_string("'" \o type_name(current) \o "' object is not subscriptable")
         ELSE IF current.t = "dict"
              THEN LET got == dict_get(current, part) IN
                   IF is_none(got) THEN Null ELSE walk(got, Tail(parts))
              ELSE error_string("'" \o type_name(current) \o "' object has no attribute 'get'")

extract_content_path(d, p) == walk(d, path_parts(p))

\* Key names of the generic documents.
KeyNames == {"a", "b"}

Numbers == List(<<Num(1), Num(2), Num(3)>>)

StandardResponse ==
    Dict([choices |-> List(<<Dict([message |-> Dict([role |-> Str("assistant"),
                                                     content |-> Str("Hello")])])>>)])

TextResponse ==
    Dict([choices |-> List(<<Dict([text |-> Str("Hello"), index |-> Num(0)])>>)])

Documents ==
    { Null, Num(5), Bool(TRUE), Str("hi"),
      List(<<>>), Numbers, List(<<Null>>), List(<<Dict([a |-> Num(5)])>>),
      Dict(EmptyMap), Dict([a |-> Null]), Dict([a |-> Num(1)]), Dict([a |-> Num(0)]),
      Dict([a |-> Str("hello")]), Dict([a |-> Dict([b |-> Num(5)])]),
      Dict([a |-> Dict([b |-> Null])]), Dict([a |-> Numbers]),
      Dict([a |-> List(<<Null>>)]), Dict([a |-> List(<<List(<<Num(1), Num(2)>>)>>)]),
      Dict([a |-> Num(1), b |-> Bool(FALSE)]), Dict([b |-> Numbers]),
      Dict([choices |-> Dict(EmptyMap)]), Dict([choices |-> Dict([a |-> Num(1)])]),
      StandardResponse, TextResponse }

\* The dot-separated pieces the generated paths are made of.
Pieces ==
    { "", "a", "b", "0", "1", "3", "01", "[0]", "[1]", "[3]",
      "a[0]", "a[1]", "a[3]", "a[0][1]", "a[" }

RECURSIVE JoinedPaths(_)
JoinedPaths(n) ==
    IF n = 1 THEN Pieces
    ELSE JoinedPaths(n - 1)
         \cup {p \o "." \o q : p \in JoinedPaths(n - 1), q \in Pieces}

\* The paths the scripts configure and try.
ConfiguredPaths ==
    { "choices[0].message.content", "choices[0].text", "choices[0].message",
      "choices.0.text" }

\* Paths with a digit character that is not a decimal digit.
SuperscriptPaths == {"²", "a[²]"}

\* Path texts with doubled dots or a bracket left open or closed alone.
BrokenPaths == {"a[0", "a]", "a..b", "a[0]]", "choices[0.text"}

Paths ==
    JoinedPaths(MaxPieces) \cup ConfiguredPaths \cup BrokenPaths \cup SuperscriptPaths

---------------------------------------------------------------------------
(* The other path walkers (response_format_analyzer.py, trace_vs_ui_tester.py) *)

\* A path that was tried and gave nothing.
NotFound == [t |-> "not_found"]

\* An exception that a handler of the script caught and printed.
Caught(exc) == [t |-> "caught", exc |-> exc]

\* The type-checked loop of phoenix_request_analysis: every step checks the
\* type and the bounds; anything else, exceptions included, ends with None.
RECURSIVE checked_walk(_, _)
checked_walk(content, parts) ==
    IF parts = <<>> THEN content
    ELSE LET part == Head(parts) IN
         IF isdigit(part)
         THEN IF ~int_accepts(part) THEN Null
              ELSE IF content.t = "list" /\ int(part) < Len(content.xs)
              THEN checked_walk(content.xs[int(part) + 1], Tail(parts))
              ELSE Null
         ELSE IF IsDict(content) /\ part \in DOMAIN content.m
              THEN checked_walk(content.m[part], Tail(parts))
              ELSE Null

\* except (KeyError, IndexError, TypeError) of the alternative-path loop
alt_catches(exc) == exc \in {"KeyError", "IndexError", "TypeError"}

\* The exception of alt_content[int(part)] / output_value[int(part)], "" if
\* the subscript succeeds.
subscript_error(v, part) ==
    IF ~int_accepts(part) THEN "ValueError"
    ELSE CASE v.t = "list" -> IF int(part) < Len(v.xs) THEN "" ELSE "IndexError"
           [] v.t = "str"  -> IF int(part) < Len(v.s) THEN "" ELSE "IndexError"
           [] v.t = "dict" -> "KeyError"
           [] OTHER        -> "TypeError"

\* v[int(part)] when the subscript succeeds
subscript(v, part) ==
    IF v.t = "list" THEN v.xs[int(part) + 1] ELSE Str(CharAt(v.s, int(part) + 1))

\* One alternative path: the value found, NotFound, or the exception that
\* the inner handler does not name.
RECURSIVE alt_walk(_, _)
alt_walk(alt_content, parts) ==
    IF parts = <<>> THEN alt_content
    ELSE LET part == Head(parts) IN
         IF isdigit(part)
         THEN LET exc == subscript_error(alt_content, part) IN
              IF exc = "" THEN alt_walk(subscript(alt_content, part), Tail(parts))
              ELSE IF alt_catches(exc) THEN NotFound
              ELSE Raised(exc)
         ELSE IF ~IsDict(alt_content)
              THEN (IF alt_catches("AttributeError") THEN NotFound
                    ELSE Raised("AttributeError"))
              ELSE IF dict_get(alt_content, part) = Null THEN NotFound
              ELSE alt_walk(dict_get(alt_content, part), Tail(parts))

alt_paths == <<"choices[0].text", "choices[0].message", "choices[0].message.content">>

\* The loop over alt_paths, the configured path skipped.  An exception that
\* leaves one walk is caught by the outer `except Exception` of the function
\* and ends the loop.
RECURSIVE try_alt_paths(_, _, _)
try_alt_paths(response_, extract_path, todo) ==
    IF todo = <<>> THEN <<>>
    ELSE IF Head(todo) = extract_path
         THEN try_alt_paths(response_, extract_path, Tail(todo))
    ELSE LET found == alt_walk(response_, path_parts(Head(todo))) IN
         IF found.t = "raised" THEN <<Caught(found.exc)>>
         ELSE <<found>> \o try_alt_paths(response_, extract_path, Tail(todo))

\* phoenix_request_analysis from the response on: content, and the
\* alternatives tried when content is None.
phoenix_request_analysis(response_, extract_path) ==
    IF ~Truthy(response_) THEN [content |-> Unset, tried |-> <<>>]
    ELSE LET content == checked_walk(response_, path_parts(extract_path)) IN
         [content |-> content,
          tried   |-> IF content # Null THEN <<>>
                      ELSE try_alt_paths(response_, extract_path, alt_paths)]

\* The primary loop of trace_phoenix_extraction_steps: as the loop of
\* extract_content_path with `break` on None; every exception is caught by
\* the `except Exception` around it.
RECURSIVE steps_walk(_, _)
steps_walk(content, parts) ==
    IF parts = <<>> THEN content
    ELSE LET part == Head(parts) IN
         IF isdigit(part)
         THEN LET exc == subscript_error(content, part) IN
              IF exc = "" THEN steps_walk(subscript(content, part), Tail(parts))
              ELSE Caught(exc)
         ELSE IF ~IsDict(content) THEN Caught("AttributeError")
              ELSE IF dict_get(content, part) = Null THEN Null
              ELSE steps_walk(dict_get(content, part), Tail(parts))

\* `"choices" in response`: "" when it can be evaluated, else the exception.
contains_error(v) == IF v.t \in {"dict", "list", "str"} THEN "" ELSE "TypeError"

\* The fallback to choices[0].text after a primary path that gave None.
text_fallback(response_) ==
    IF contains_error(response_) # "" THEN Caught(contains_error(response_))
    ELSE IF ~(IsDict(response_) /\ In("choices", response_)) THEN NotFound
    ELSE LET choices == response_.m["choices"] IN
         IF ~Truthy(choices) THEN NotFound
         ELSE IF subscript_error(choices, "0") # ""
         THEN Caught(subscript_error(choices, "0"))
         ELSE LET first == subscript(choices, "0") IN
              IF IsDict(first) /\ In("text", first) THEN first.m["text"]
              ELSE IF IsDict(first)
                      /\ (In("message", first) => IsDict(first.m["message"]))
              THEN NotFound
              \* .keys() of the structure dump on a value that is not a dict
              ELSE Caught("AttributeError")

trace_phoenix_extraction_steps(response_, extract_path) ==
    IF ~Truthy(response_) THEN [content |-> Unset, tried |-> <<>>]
    ELSE LET content == steps_walk(response_, path_parts(extract_path)) IN
         [content |-> content,
          tried   |-> IF content = Null THEN <<text_fallback(response_)>> ELSE <<>>]

\* s.replace(old, new) for a text `old` of any length
RECURSIVE replace_text(_, _, _)
replace_text(s, old, new) ==
    IF Len(s) < Len(old) THEN s
    ELSE IF SubSeq(s, 1, Len(old)) = old
         THEN new \o replace_text(SubSeq(s, Len(old) + 1, Len(s)), old, new)
    ELSE CharAt(s, 1) \o replace_text(Tail(s), old, new)

ui_fields == <<"content", "message", "text", "choices[].text", "choices[].message.content">>

\* parts = field.replace("[]", "[0]").replace("]", "").replace("[", ".").split(".")
ui_parts(field) == path_parts(replace_text(field, "[]", "[0]"))

\* except (IndexError, TypeError) around output_value[int(part)]
ui_catches(exc) == exc \in {"IndexError", "TypeError"}

\* The walk of one UI field over the trace outputs: the value, None, or the
\* exception that leaves the loop.
RECURSIVE ui_walk(_, _)
ui_walk(output_value, parts) ==
    IF parts = <<>> THEN output_value
    ELSE LET part == Head(parts) IN
         IF isdigit(part)
         THEN LET exc == subscript_error(output_value, part) IN
              IF exc = "" THEN ui_walk(subscript(output_value, part), Tail(parts))
              ELSE IF ui_catches(exc) THEN Null
              ELSE Raised(exc)
         ELSE IF ~IsDict(output_value) \/ dict_get(output_value, part) = Null
              THEN Null
              ELSE ui_walk(dict_get(output_value, part), Tail(parts))

\* The loop over ui_fields: the value of every field walked, up to the
\* first exception that leaves the function.
RECURSIVE check_ui_fields(_, _)
check_ui_fields(outputs, todo) ==
    IF todo = <<>> THEN <<>>
    ELSE LET output_value == ui_walk(outputs, ui_parts(Head(todo))) IN
         IF output_value.t = "raised" THEN <<output_value>>
         ELSE <<output_value>> \o check_ui_fields(outputs, Tail(todo))

InitExtract ==
    /\ NormIdle
    /\ ClientIdle
    /\ LaterIdle
    /\ data \in Documents
    /\ extracted = Unset
    /\ checked = <<>>
    /\ \/ path \in Paths /\ pc = "extract_ready"
       \/ path = "" /\ pc = "ui_ready"

\* content = extract_content_path(response, path)
Extract ==
    /\ pc = "extract_ready"
    /\ extracted' = extract_content_path(data, path)
    /\ pc' = "extracted"
    /\ UNCHANGED <<laterVars, normVars, clientVars, data, path, checked>>

\* phoenix_request_analysis, with `data` the response it received and
\* `path` the configured extract path
Analyze ==
    /\ pc = "extract_ready"
    /\ LET outcome == phoenix_request_analysis(data, path) IN
        /\ extracted' = outcome.content
        /\ checked' = outcome.tried
    /\ pc' = "analyzed"
    /\ UNCHANGED <<laterVars, normVars, clientVars, data, path>>

\* trace_phoenix_extraction_steps, likewise
TraceSteps ==
    /\ pc = "extract_ready"
    /\ LET outcome == trace_phoenix_extraction_steps(data, path) IN
        /\ extracted' = outcome.content
        /\ checked' = outcome.tried
    /\ pc' = "traced"
    /\ UNCHANGED <<laterVars, normVars, clientVars, data, path>>

\* The UI-field check of test_ui_rendering_flow, with `data` the value of
\* trace_details.get("outputs", {}): the function returns None unless an
\* exception leaves it.
CheckUiFields ==
    /\ pc = "ui_ready"
    /\ LET values == check_ui_fields(data, ui_fields) IN
        /\ checked' = values
        /\ extracted' = IF values[Len(values)].t = "raised"
                         THEN values[Len(values)] ELSE Null
    /\ pc' = "ui_checked"
    /\ UNCHANGED <<laterVars, normVars, clientVars, data, path>>

NextExtract == Extract \/ Analyze \/ TraceSteps \/ CheckUiFields

SpecExtract == InitExtract /\ [][NextExtract]_vars

---------------------------------------------------------------------------
(* Properties of extract_content_path                                       *)

Extracted == pc = "extracted"

\* The value returned reports a failure: the handler's error string.
IsFailure(v) ==
    /\ v.t = "str"
    /\ Len(v.s) >= Len("Error accessing path: ")
    /\ SubSeq(v.s, 1, Len("Error accessing path: ")) = "Error accessing path: "

\* The path is one key name.
OneKey == path \in KeyNames

\* C15: with the empty path the value returned is the root value itself.
C15_EmptyPath == (Extracted /\ path = "") => extracted = data

\* C16: for a mapping m and a key k it holds, extract(m, k) is the value
\* stored under k, also when that value is Null.
C16_PresentKey ==
    (Extracted /\ OneKey /\ IsDict(data) /\ In(path, data))
        => extracted = data.m[path]

C16_Witness ==
    /\ Extracted
    /\ data = Dict([a |-> Null]) /\ path = "a"
    /\ extracted = Null

\* C17: a key that the mapping does not hold gives a failure, which differs
\* from what a key holding Null resolves to (Null).
C17_AbsentKeyFails ==
    (Extracted /\ OneKey /\ IsDict(data) /\ ~In(path, data))
        => (IsFailure(extracted) /\ extracted # Null)

\* The index a bracket path [i] names.
BracketIndex == ("[0]" :> 0) @@ ("[1]" :> 1) @@ ("[3]" :> 3)

\* C18: for a sequence s, extract(s, "[i]") is s[i] when i < len(s) and a
\* failure when i >= len(s).
C18_SequenceIndex ==
    (Extracted /\ data.t = "list" /\ path \in DOMAIN BracketIndex)
        => IF BracketIndex[path] < Len(data.xs)
           THEN extracted = data.xs[BracketIndex[path] + 1]
           ELSE IsFailure(extracted)

\* The path is one index, in the bare or in the bracket form.
OneIndex == path \in {"0", "1", "3", "01"} \cup DOMAIN BracketIndex

\* C19: a key applied to a value that is not a mapping, and an index
\* applied to a value that is not a sequence, give a failure, never a
\* resolved value.
C19_MismatchFails ==
    (Extracted /\ ((OneKey /\ ~IsDict(data)) \/ (OneIndex /\ data.t # "list")))
        => IsFailure(extracted)

\* The segments of the path grammar: a key or an index; Bad stands for
\* a piece the grammar does not allow.
KeySegment(name) == [kind |-> "key", name |-> name]

IndexSegment(n) == [kind |-> "index", n |-> n]

BadSegment == [kind |-> "bad"]

\* The position of the first occurrence of character c in s, Len(s) + 1
\* when there is none.
FirstAt(s, c) ==
    LET hits == {i \in 1..Len(s) : CharAt(s, i) = c} IN
    IF hits = {} THEN Len(s) + 1 ELSE CHOOSE i \in hits : \A j \in hits : i <= j

\* N of the path grammar: decimal digits, at least one.
IsDecimal(text) ==
    text # "" /\ \A i \in 1..Len(text) : CharAt(text, i) \in Digits

\* The index segments of a run of [N] groups.
RECURSIVE GroupSegments(_)
GroupSegments(g) ==
    IF g = "" THEN <<>>
    ELSE LET close == FirstAt(g, "]") IN
         IF Head(g) = "[" /\ close <= Len(g) /\ IsDecimal(SubSeq(g, 2, close - 1))
         THEN <<IndexSegment(int(SubSeq(g, 2, close - 1)))>>
                  \o GroupSegments(SubSeq(g, close + 1, Len(g)))
         ELSE <<BadSegment>>

\* The segments of one dot-separated piece: digits alone are an index;
\* otherwise a name, if not empty, followed by its [N] groups.
PieceSegments(piece) ==
    IF piece = "" THEN <<BadSegment>>
    ELSE IF IsDecimal(piece) THEN <<IndexSegment(int(piece))>>
    ELSE LET open == FirstAt(piece, "[")
             name == SubSeq(piece, 1, open - 1)
         IN  IF FirstAt(name, "]") <= Len(name) THEN <<BadSegment>>
             ELSE (IF name = "" THEN <<>> ELSE <<KeySegment(name)>>)
                      \o GroupSegments(SubSeq(piece, open, Len(piece)))

RECURSIVE Flatten(_)
Flatten(seqs) == IF seqs = <<>> THEN <<>> ELSE Head(seqs) \o Flatten(Tail(seqs))

\* The segments the path text denotes, left to right.
Segments(p) ==
    IF p = "" THEN <<>>
    ELSE LET pieces == split(p, ".") IN
         Flatten([i \in 1..Len(pieces) |-> PieceSegments(pieces[i])])

\* Applying segments to a value left to right: whether every segment
\* resolves, and the value reached.
RECURSIVE Reach(_, _)
Reach(v, segs) ==
    IF segs = <<>> THEN [ok |-> TRUE, v |-> v]
    ELSE LET seg == Head(segs) IN
         IF seg.kind = "key" /\ IsDict(v) /\ seg.name \in DOMAIN v.m
         THEN Reach(v.m[seg.name], Tail(segs))
         ELSE IF seg.kind = "index" /\ v.t = "list" /\ seg.n < Len(v.xs)
         THEN Reach(v.xs[seg.n + 1], Tail(segs))
         ELSE [ok |-> FALSE, v |-> Null]

\* C20: for a path of several segments that all resolve, the value returned
\* is the value reached by applying the segments left to right.
C20_SeveralSegments ==
    (Extracted /\ Len(Segments(path)) >= 2 /\ Reach(data, Segments(path)).ok)
        => extracted = Reach(data, Segments(path)).v

\* Every piece of the path begins with a name or is digits alone, and the
\* path is well formed.
NamedPieces(p) ==
    /\ p # ""
    /\ \A i \in 1..Len(Segments(p)) : Segments(p)[i] # BadSegment
    /\ LET pieces == split(p, ".") IN
       \A i \in 1..Len(pieces) : Head(pieces[i]) # "["

HasBracket(p) == FirstAt(p, "[") <= Len(p)

\* The dotted text of a segment sequence: names and indices joined by dots.
RECURSIVE DottedText(_)
DottedText(segs) ==
    LET first == IF Head(segs).kind = "key" THEN Head(segs).name
                 ELSE ToString(Head(segs).n)
    IN  IF Len(segs) = 1 THEN first ELSE first \o "." \o DottedText(Tail(segs))

\* C21: a path written with name[N] and the same path written with name.N
\* give the same result on every root value, and when every segment
\* resolves the result is the value reached left to right.
C21_BracketSameAsDotted ==
    (Extracted /\ HasBracket(path) /\ NamedPieces(path))
        => /\ extracted = extract_content_path(data, DottedText(Segments(path)))
           /\ Reach(data, Segments(path)).ok
                  => extracted = Reach(data, Segments(path)).v

C21_Witness ==
    /\ Extracted
    /\ path = "choices[0].text" /\ data = TextResponse
    /\ DottedText(Segments(path)) = "choices.0.text"
    /\ extracted = Reach(data, Segments(path)).v
    /\ extracted.t = "str"

\* The brackets of a path text, in order.
RECURSIVE Brackets(_)
Brackets(p) ==
    IF p = "" THEN ""
    ELSE (IF Head(p) \in {"[", "]"} THEN CharAt(p, 1) ELSE "") \o Brackets(Tail(p))

\* Every opening bracket is closed before the next one opens.
RECURSIVE Matched(_)
Matched(b) ==
    \/ b = ""
    \/ Len(b) >= 2 /\ SubSeq(b, 1, 2) = "[]" /\ Matched(SubSeq(b, 3, Len(b)))

ConsecutiveDots(p) ==
    \E i \in 1..(Len(p) - 1) : CharAt(p, i) = "." /\ CharAt(p, i + 1) = "."

MalformedPath(p) == ConsecutiveDots(p) \/ ~Matched(Brackets(p))

\* C22: a path with consecutive dots or an unmatched bracket never yields a
\* resolved value: the call ends in a failure.
C22_MalformedRejected ==
    (Extracted /\ MalformedPath(path)) => IsFailure(extracted)

---------------------------------------------------------------------------
(* Properties of the path walkers together                                  *)

Walked == pc \in {"extracted", "analyzed", "traced", "ui_checked"}

\* C23: whatever the value and the path, every walker ends with a result
\* or a failure value; no exception leaves it.
C23_NoExceptionEscapes ==
    Walked => /\ extracted.t # "raised"
              /\ \A i \in 1..Len(checked) : checked[i].t # "raised"

\* The walk of the first k parts ended the call: with the error string, with
\* an exception, or with the None of a key lookup.
StoppedAt(k) ==
    LET parts == path_parts(path)
        reached == walk(data, SubSeq(parts, 1, k))
    IN  \/ IsFailure(reached)
        \/ reached.t = "raised"
        \/ reached = Null /\ ~isdigit(parts[k])

\* C24: the call ends at the first part that fails, with the outcome of
\* that part whatever parts follow, and no step of any call changes the
\* root value.
C24_Pure ==
    /\ [](Extracted =>
              \A k \in 1..Len(path_parts(path)) :
                  StoppedAt(k) => extracted = walk(data, SubSeq(path_parts(path), 1, k)))
    /\ [][data' = data]_vars

C24_Witness ==
    /\ Extracted
    /\ data = Numbers /\ path = "3.a"
    /\ StoppedAt(1) /\ Len(path_parts(path)) = 2
    /\ extracted = error_string("list index out of range")

---------------------------------------------------------------------------
(* Properties of transform_response, continued                              *)

\* Every field of mapping m is a field of mapping n, with the same value.
KeepsFields(m, n) == \A k \in DOMAIN m.m : k \in DOMAIN n.m /\ n.m[k] = m.m[k]

---------------------------------------------------------------------------
(* Agreement of the walkers                                                 *)

\* The value is a resolved one: not None, not the error string, not an
\* exception.
Resolved(v) == v.t \in {"bool", "num", "str", "list", "dict"} /\ ~IsFailure(v)

\* C29: when the type-checked walk of phoenix_request_analysis ends with a
\* content that is not None, extract_content_path and the walk of
\* trace_phoenix_extraction_steps return that value; when
\* extract_content_path returns a value that is neither None nor an error,
\* the type-checked walk ends with that value.
C29_WalkersAgree ==
    /\ (pc = "analyzed" /\ Resolved(extracted))
           => /\ extract_content_path(data, path) = extracted
              /\ trace_phoenix_extraction_steps(data, path).content = extracted
    /\ (Extracted /\ Resolved(extracted))
           => phoenix_request_analysis(data, path).content = extracted

---------------------------------------------------------------------------
(* main of phoenix_response_fix.py                                          *)

\* env_vars of configure_phoenix_environment
env_vars ==
    [ PHOENIX_OPENAI_EXTRACT_CONTENT_PATH    |-> Str("choices[0].message.content"),
      PHOENIX_TRACE_DEBUG                    |-> Str("true"),
      PHOENIX_LLM_TRACE_MESSAGE_CONTENT      |-> Str("true"),
      PHOENIX_LLM_ENABLE_CONTENT_CAPTURE     |-> Str("true"),
      PHOENIX_LLM_TRACE_ALL_PAYLOADS         |-> Str("true"),
      PHOENIX_OPENAI_DISABLE_RESPONSE_FORMAT |-> Str("true") ]

\* os.environ[key] = value for every pair of env_vars
configure_phoenix_environment(env) ==
    [key \in DOMAIN env \cup DOMAIN env_vars |->
        IF key \in DOMAIN env_vars THEN env_vars[key] ELSE env[key]]

\* patch_phoenix_openai_client: True with create replaced when openai and
\* openai.chat.completions.create are there; ImportError and AttributeError
\* give False.
patch_phoenix_openai_client(mods) ==
    IF mods.openai = "ok"
    THEN [ret |-> Bool(TRUE), modules |-> [mods EXCEPT !.create = "wrapped"]]
    ELSE [ret |-> Bool(FALSE), modules |-> mods]

\* create_response_transformer_middleware: True with handle_llm_trace
\* replaced when phoenix.server.main has one; False without the module
\* (ImportError) or without the function.
create_response_transformer_middleware(mods) ==
    IF mods.phoenix = "ok"
    THEN [ret |-> Bool(TRUE), modules |-> [mods EXCEPT !.handle_llm_trace = "wrapped"]]
    ELSE [ret |-> Bool(FALSE), modules |-> mods]

\* Faulty variant: the middleware is tried whatever the first attempt gave.
tries_middleware_always_mutant(patched) == TRUE

\* if not client_patched
tries_middleware(patched) == ~Truthy(patched)

\* What the process finds set before the script runs.
Environs == [DOMAIN env_vars -> {Unset, Str("false")}]

\* What the host can import: the module is missing, lacks the attribute the
\* script takes, or has it.
Hosts ==
    [ openai : {"missing", "no_create", "ok"},
      phoenix : {"missing", "no_handle_llm_trace", "ok"},
      create : {"original"},
      handle_llm_trace : {"original"} ]

InitMain ==
    /\ NormIdle /\ ExtractIdle /\ ClientIdle /\ TraceIdle /\ ScriptIdle /\ HookIdle
    /\ environ \in Environs
    /\ modules \in Hosts
    /\ steps = <<>>
    /\ client_patched = Unset /\ middleware_added = Unset
    /\ success = Unset /\ exit_code = Unset
    /\ pc = "main_start"

mainFrame ==
    UNCHANGED <<normVars, extractVars, clientVars, traceVars, scriptVars, hookVars>>

\* Step 1
MainConfigure ==
    /\ pc = "main_start"
    /\ environ' = configure_phoenix_environment(environ)
    /\ steps' = Append(steps, "configure_phoenix_environment")
    /\ pc' = "main_configured"
    /\ mainFrame
    /\ UNCHANGED <<modules, client_patched, middleware_added, success, exit_code>>

\* Step 2: the self-test; main does not look at what it returns.
MainTest ==
    /\ pc = "main_configured"
    /\ steps' = Append(steps, "test_transformer")
    /\ pc' = "main_tested"
    /\ mainFrame
    /\ UNCHANGED <<environ, modules, client_patched, middleware_added, success, exit_code>>

\* Step 3
MainPatchClient ==
    /\ pc = "main_tested"
    /\ LET call == patch_phoenix_openai_client(modules) IN
        /\ client_patched' = call.ret
        /\ modules' = call.modules
    /\ steps' = Append(steps, "patch_phoenix_openai_client")
    /\ pc' = "main_client_tried"
    /\ mainFrame
    /\ UNCHANGED <<environ, middleware_added, success, exit_code>>

\* Step 4
MainMiddleware ==
    /\ pc = "main_client_tried"
    /\ tries_middleware(client_patched)
    /\ LET call == create_response_transformer_middleware(modules) IN
        /\ middleware_added' = call.ret
        /\ modules' = call.modules
    /\ steps' = Append(steps, "create_response_transformer_middleware")
    /\ pc' = "main_middleware_tried"
    /\ mainFrame
    /\ UNCHANGED <<environ, client_patched, success, exit_code>>

\* return False after two failures, return True otherwise
MainReturn ==
    /\ \/ /\ pc = "main_client_tried"
          /\ ~tries_middleware(client_patched)
          /\ success' = Bool(TRUE)
       \/ /\ pc = "main_middleware_tried"
          /\ success' = Bool(Truthy(middleware_added))
    /\ pc' = "main_returned"
    /\ mainFrame
    /\ UNCHANGED <<environ, modules, client_patched, middleware_added, exit_code, steps>>

\* sys.exit(0 if success else 1)
MainExit ==
    /\ pc = "main_returned"
    /\ exit_code' = IF Truthy(success) THEN Num(0) ELSE Num(1)
    /\ pc' = "main_exited"
    /\ mainFrame
    /\ UNCHANGED <<environ, modules, client_patched, middleware_added, success, steps>>

NextMain ==
    MainConfigure \/ MainTest \/ MainPatchClient \/ MainMiddleware \/ MainReturn \/ MainExit

SpecMain == InitMain /\ [][NextMain]_vars

---------------------------------------------------------------------------
(* Properties of main                                                       *)

\* The position of a call in `steps`, 0 when it was not made.
StepAt(name) ==
    IF \E i \in 1..Len(steps) : steps[i] = name
    THEN CHOOSE i \in 1..Len(steps) : steps[i] = name
    ELSE 0

Called(name) == StepAt(name) > 0

PatchAttempts == {"patch_phoenix_openai_client", "create_response_transformer_middleware"}

\* C25: the middleware is tried only after the client patch was tried and
\* failed; both the configuration and the self-test have run before any
\* patch attempt; main returns False exactly when both attempts failed and
\* True otherwise, and the process exits with 1 for False and 0 for True.
C25_MainFlow ==
    /\ Called("create_response_transformer_middleware")
          => /\ client_patched = Bool(FALSE)
             /\ modules.openai # "ok"
             /\ 0 < StepAt("patch_phoenix_openai_client")
             /\ StepAt("patch_phoenix_openai_client")
                    < StepAt("create_response_transformer_middleware")
    /\ \A attempt \in PatchAttempts : Called(attempt)
          => /\ StepAt("configure_phoenix_environment") = 1
             /\ StepAt("test_transformer") = 2
             /\ StepAt(attempt) > 2
             /\ \A key \in DOMAIN env_vars : environ[key] = env_vars[key]
    /\ pc \in {"main_returned", "main_exited"}
          => /\ success \in {Bool(TRUE), Bool(FALSE)}
             /\ success = Bool(FALSE)
                    <=> (modules.openai # "ok" /\ modules.phoenix # "ok")
             /\ success = Bool(FALSE)
                    <=> (client_patched = Bool(FALSE) /\ middleware_added = Bool(FALSE))
    /\ pc = "main_exited"
          => exit_code = IF success = Bool(FALSE) THEN Num(1) ELSE Num(0)

C25_Witness ==
    /\ pc = "main_exited"
    /\ exit_code = Num(1) /\ success = Bool(FALSE)
    /\ steps = <<"configure_phoenix_environment", "test_transformer",
                 "patch_phoenix_openai_client", "create_response_transformer_middleware">>
    /\ modules.openai = "no_create" /\ modules.phoenix = "missing"

---------------------------------------------------------------------------
(* wrapped_handle_llm_trace (the trace middleware)                          *)

\* A Python object json.dumps cannot serialise (a datetime, bytes).
Opaque == [t |-> "object"]

RECURSIVE serializable(_)
serializable(v) ==
    CASE v.t = "object" -> FALSE
      [] v.t = "list"   -> \A i \in 1..Len(v.xs) : serializable(v.xs[i])
      [] v.t = "dict"   -> \A k \in DOMAIN v.m : serializable(v.m[k])
      [] OTHER          -> TRUE

\* transform_response on a value of a trace: json.dumps in the debug message,
\* which stands before the try block, raises TypeError on a value it cannot
\* serialise.
transform_field(v) ==
    IF ~early_return(v) /\ ~serializable(v) THEN Raised("TypeError")
    ELSE transform_response(v).ret

\* Faulty variant: no handler around the transformation.
trace_catches_nothing_mutant(exc) == FALSE

\* except Exception
trace_catches(exc) == TRUE

\* The fields the wrapper transforms, in the order of the code.
trace_fields == <<"outputs", "response">>

\* The try block: every field of the trace that is a dict is replaced by
\* its transformation; an exception ends the block, what was assigned
\* before stays.
RECURSIVE transform_fields(_, _)
transform_fields(trace, todo) ==
    IF todo = <<>> \/ ~IsDict(trace) THEN [trace |-> trace, raised |-> ""]
    ELSE LET field == Head(todo) IN
         IF In(field, trace) /\ IsDict(trace.m[field])
         THEN LET transformed == transform_field(trace.m[field]) IN
              IF transformed.t = "raised"
              THEN [trace |-> trace, raised |-> transformed.exc]
              ELSE transform_fields(Dict(Put(trace.m, field, transformed)), Tail(todo))
         ELSE transform_fields(trace, Tail(todo))

\* One call of the wrapper: the calls of the original handler it makes and
\* what its caller gets (a value, or the exception that leaves it).
wrapped_handle_llm_trace(trace, original_result) ==
    LET block == transform_fields(trace, trace_fields) IN
    IF block.raised # "" /\ ~trace_catches(block.raised)
    THEN [calls |-> <<>>, ret |-> Raised(block.raised)]
    ELSE [calls |-> <<block.trace>>, ret |-> original_result]

Unserializable == Dict([choices |-> List(<<Dict([created |-> Opaque])>>)])

\* Values of the outputs / response field of a trace.
TracePayloads ==
    { Null, Str("text"), Dict(EmptyMap), Dict([choices |-> Num(5)]),
      Dict(Put(EmptyMap, SENTINEL, Bool(TRUE))),
      StandardResponse, TextResponse, Unserializable }

Traces ==
    {Null, List(<<StandardResponse>>), Dict(EmptyMap)}
    \cup {Dict([outputs |-> o]) : o \in TracePayloads}
    \cup {Dict([response |-> r]) : r \in TracePayloads}
    \cup {Dict([outputs |-> o, response |-> r]) : o \in TracePayloads, r \in TracePayloads}

\* What the original handler does: it returns a value or raises.
HandlerResults == {Null, Str("stored"), Raised("RuntimeError")}

InitTrace ==
    /\ NormIdle /\ ExtractIdle /\ ClientIdle /\ MainIdle /\ ScriptIdle /\ HookIdle
    /\ trace_data \in Traces
    /\ handler_result \in HandlerResults
    /\ handler_calls = <<>>
    /\ trace_returned = Unset
    /\ pc = "trace_ready"

\* Phoenix calls phoenix_main.handle_llm_trace(trace_data), now the wrapper.
HandleTrace ==
    /\ pc = "trace_ready"
    /\ LET call == wrapped_handle_llm_trace(trace_data, handler_result) IN
        /\ handler_calls' = handler_calls \o call.calls
        /\ trace_returned' = call.ret
        /\ trace_data' = IF call.calls = <<>> THEN trace_data ELSE call.calls[1]
    /\ pc' = "trace_handled"
    /\ UNCHANGED <<normVars, extractVars, clientVars, mainVars, scriptVars, hookVars,
                   handler_result>>

NextTrace == HandleTrace

SpecTrace == InitTrace /\ [][NextTrace]_vars

\* The transformation of some field raised in this call.
TransformationRaised(trace) == transform_fields(trace, trace_fields).raised # ""

\* C26: every call of the wrapper calls the original handler exactly once
\* and gives its caller what the original gave, whether the transformation
\* ran, was skipped or raised.
C26_OriginalCalledOnce ==
    [][pc = "trace_ready" =>
          /\ Len(handler_calls') = Len(handler_calls) + 1
          /\ trace_returned' = handler_result]_vars

C26_Witness ==
    /\ pc = "trace_handled"
    /\ Len(handler_calls) = 1
    /\ handler_calls[1] = Dict([outputs |-> transform_response(TextResponse).ret,
                                response |-> Unserializable])
    /\ trace_returned = handler_result /\ handler_result = Str("stored")

---------------------------------------------------------------------------
(* The diagnostic scripts and INFERENCE_KEY                                 *)

Scripts == {"debug_api", "response_format_analyzer", "trace_vs_ui_tester"}

\* os.environ.get(name, default)
environ_get(value, default) == IF value = Unset THEN default ELSE value

\* Faulty variant: only a missing value counts, the empty string passes.
key_missing_none_only_mutant(key) == key = Null

\* if not INFERENCE_KEY
key_missing(key) == ~Truthy(key)

\* The functions each __main__ calls, in order.
main_calls ==
    [ debug_api |->
          <<"direct_curl_equivalent", "verify_phoenix_expectations",
            "suggest_phoenix_config", "test_specific_request_formats">>,
      response_format_analyzer |->
          <<"response_schema_analysis", "phoenix_request_analysis",
            "test_response_format_options", "trace_phoenix_extraction_steps">>,
      trace_vs_ui_tester |->
          <<"test_ui_rendering_flow", "test_with_custom_transformer">> ]

\* The functions that never post to the inference endpoint.
NoRequest == {"direct_curl_equivalent"}

\* The functions that post to it on some runs only (test_ui_rendering_flow
\* returns before its request when no trace could be created or found).
SomeRequest == {"test_ui_rendering_flow"}

\* The module checks the key when it is loaded (debug_api,
\* response_format_analyzer); trace_vs_ui_tester checks it in __main__, after
\* the arguments are parsed.
checks_at_load(name) == name \in {"debug_api", "response_format_analyzer"}

\* parser.parse_args(): --help prints the help and exits with 0, an
\* argument the parser does not know exits with 2; Unset when it returns.
parse_args(args) ==
    IF args = <<>> THEN Unset
    ELSE IF Head(args) \in {"--help", "-h"} THEN Num(0)
    ELSE IF Head(args) \in {"--phoenix-url", "--inference-url"} /\ Len(args) = 2 THEN Unset
    ELSE Num(2)

CommandLines ==
    { <<>>, <<"--help">>, <<"--bogus">>, <<"--phoenix-url">>,
      <<"--phoenix-url", "http://phoenix:6006">>,
      <<"--inference-url", "https://eu.inference.heroku.com">> }

InitScripts ==
    /\ NormIdle /\ ExtractIdle /\ ClientIdle /\ MainIdle /\ TraceIdle /\ HookIdle
    /\ script \in Scripts
    /\ argv \in CommandLines
    /\ key_env \in {Unset, Str(""), Str("inf-key")}
    /\ url_env \in {Unset, Str("https://us.inference.heroku.com")}
    /\ INFERENCE_KEY = Unset
    /\ pending = <<>> /\ called = <<>> /\ sent = <<>>
    /\ status = Unset
    /\ pc = "script_start"

scriptFrame ==
    UNCHANGED <<normVars, extractVars, clientVars, mainVars, traceVars, hookVars>>

\* The module body down to __main__: the globals are read from the
\* environment; two of the scripts exit here without a key.
LoadModule ==
    /\ pc = "script_start"
    /\ INFERENCE_KEY' = environ_get(key_env, Str(""))
    /\ IF checks_at_load(script) /\ key_missing(INFERENCE_KEY')
       THEN status' = Num(1) /\ pc' = "script_exited" /\ pending' = pending
       ELSE IF checks_at_load(script)
       THEN status' = status /\ pc' = "script_running" /\ pending' = main_calls[script]
       ELSE status' = status /\ pc' = "script_main" /\ pending' = pending
    /\ scriptFrame
    /\ UNCHANGED <<script, argv, key_env, url_env, called, sent>>

\* __main__ of trace_vs_ui_tester: the arguments, then the key.
ParseAndCheck ==
    /\ pc = "script_main"
    /\ IF parse_args(argv) # Unset
       THEN status' = parse_args(argv) /\ pc' = "script_exited" /\ pending' = pending
       ELSE IF key_missing(INFERENCE_KEY)
       THEN status' = Num(1) /\ pc' = "script_exited" /\ pending' = pending
       ELSE status' = status /\ pc' = "script_running" /\ pending' = main_calls[script]
    /\ scriptFrame
    /\ UNCHANGED <<script, argv, key_env, url_env, INFERENCE_KEY, called, sent>>

\* The next function of __main__ runs.
CallFunction ==
    /\ pc = "script_running"
    /\ pending # <<>>
    /\ called' = Append(called, Head(pending))
    /\ \/ Head(pending) \notin NoRequest /\ sent' = Append(sent, Head(pending))
       \/ Head(pending) \in NoRequest \cup SomeRequest /\ sent' = sent
    /\ pending' = Tail(pending)
    /\ scriptFrame
    /\ UNCHANGED <<script, argv, key_env, url_env, INFERENCE_KEY, status, pc>>

\* The end of __main__.
Finish ==
    /\ pc = "script_running"
    /\ pending = <<>>
    /\ status' = Num(0)
    /\ pc' = "script_exited"
    /\ scriptFrame
    /\ UNCHANGED <<script, argv, key_env, url_env, INFERENCE_KEY, pending, called, sent>>

NextScripts == LoadModule \/ ParseAndCheck \/ CallFunction \/ Finish

SpecScripts == InitScripts /\ [][NextScripts]_vars

\* INFERENCE_KEY is unset or empty in the environment.
NoKey == key_env \in {Unset, Str("")}

\* C27 as stated: without a key no request is sent and no function of
\* __main__ runs, and a script that has exited has exited with status 1.
C27_Original ==
    NoKey => /\ sent = <<>> /\ called = <<>>
             /\ pc # "script_running"
             /\ pc = "script_exited" => status = Num(1)

\* C27 amended: without a key no request is sent and no function of
\* __main__ runs; a script that has exited has exited with status 1,
\* except trace_vs_ui_tester when the parsing of its arguments ended the
\* process first (0 for --help, 2 for a usage error).
C27_NoRequestWithoutKey ==
    NoKey => /\ sent = <<>> /\ called = <<>>
             /\ pc # "script_running"
             /\ pc = "script_exited" =>
                   status = IF script = "trace_vs_ui_tester" /\ parse_args(argv) # Unset
                            THEN parse_args(argv) ELSE Num(1)

C27_Witness ==
    /\ pc = "script_exited" /\ script = "trace_vs_ui_tester"
    /\ key_env = Str("") /\ argv = <<"--phoenix-url", "http://phoenix:6006">>
    /\ status = Num(1) /\ sent = <<>>

---------------------------------------------------------------------------
(* The UI hook written by create_ui_hook (direct_fix.py)                    *)

\* JavaScript's undefined: a property that is not there.
Undefined == [t |-> "undefined"]

\* The truthiness of JavaScript: arrays and objects are truthy also when
\* empty.
js_truthy(v) ==
    CASE v.t \in {"null", "undefined"} -> FALSE
      [] v.t = "bool" -> v.b
      [] v.t = "num"  -> v.n # 0
      [] v.t = "str"  -> v.s # ""
      [] OTHER        -> TRUE

\* v.prop for a value that is neither null nor undefined
js_get(v, prop) ==
    CASE v.t = "dict" -> IF prop \in DOMAIN v.m THEN v.m[prop] ELSE Undefined
      [] v.t = "list" -> IF prop = "length" THEN Num(Len(v.xs)) ELSE Undefined
      [] v.t = "str"  -> IF prop = "length" THEN Num(Len(v.s)) ELSE Undefined
      [] OTHER        -> Undefined

\* v.length > 0
js_has_items(v) == js_get(v, "length").t = "num" /\ js_get(v, "length").n > 0

\* v[0] for a value with items
js_first(v) == IF v.t = "list" THEN v.xs[1] ELSE Str(CharAt(v.s, 1))

\* A property read on null or undefined throws TypeError.
js_throws(v) == v.t \in {"null", "undefined"}

\* if (choice.message && choice.message.content) ... else if (choice.text)
choice_content(choice) ==
    IF js_truthy(js_get(choice, "message"))
       /\ js_truthy(js_get(js_get(choice, "message"), "content"))
    THEN js_get(js_get(choice, "message"), "content")
    ELSE IF js_truthy(js_get(choice, "text")) THEN js_get(choice, "text")
    ELSE Null

\* The callback that receives the trace details: the content it finds, null
\* when it finds none, or the TypeError that rejects the promise.
trace_content(trace) ==
    IF js_throws(trace) THEN Raised("TypeError")
    ELSE IF ~js_truthy(js_get(trace, "outputs")) THEN Null
    ELSE LET choices == js_get(js_get(trace, "outputs"), "choices") IN
         IF ~(js_truthy(choices) /\ js_has_items(choices)) THEN Null
         ELSE IF js_throws(js_first(choices)) THEN Raised("TypeError")
         ELSE choice_content(js_first(choices))

\* The callback that receives the list of traces: "details" when it goes on
\* to fetch the latest trace, "done" when it stops (also by a TypeError).
after_traces(traces) ==
    IF js_truthy(traces) /\ js_has_items(traces) /\ ~js_throws(js_first(traces))
    THEN "details" ELSE "done"

\* Faulty variant: the interval is cleared inside `if (emptyContent)`.
clears_interval_when_empty_mutant(found, empty) == found /\ empty

\* clearInterval(interval) at the end of `if (responseContainer)`
clears_interval(found, empty) == found

\* What GET /api/v1/llm-traces may answer.
TraceLists ==
    { Null, List(<<>>), Dict(EmptyMap), List(<<Null>>),
      List(<<Dict([id |-> Str("t1")])>>),
      List(<<Dict([id |-> Str("t2")]), Dict([id |-> Str("t1")])>>) }

HookChoices ==
    ChoiceDicts \cup
    { Null, Str("junk"),
      Dict([text |-> Str("T"), message |-> Dict([content |-> Str("")])]),
      Dict([text |-> Str(""), message |-> Dict([role |-> Str("assistant")])]),
      Dict([text |-> Num(0), message |-> Str("m")]) }

\* What GET /api/v1/llm-traces/<id> may answer.
TraceDetails ==
    { Null, Dict(EmptyMap), Dict([outputs |-> Null]), Dict([outputs |-> Str("text")]),
      Dict([outputs |-> Dict(EmptyMap)]),
      Dict([outputs |-> Dict([choices |-> List(<<>>)])]),
      Dict([outputs |-> Dict([choices |-> Str("ab")])]),
      Dict([outputs |-> Dict([choices |-> Dict(EmptyMap)])]) }
    \cup {Dict([outputs |-> Dict([choices |-> List(<<c>>)])]) : c \in HookChoices}

InitHook ==
    /\ NormIdle /\ ExtractIdle /\ ClientIdle /\ MainIdle /\ TraceIdle /\ ScriptIdle
    /\ container \in {"absent", "empty_message", "other_output"}
    /\ interval_active = TRUE
    /\ ticks = 0 /\ lookups = 0
    /\ emptyContent = Unset
    /\ fetching = "none"
    /\ latest = Unset
    /\ inserted = Unset
    /\ pc = "hook_loaded"

hookFrame ==
    UNCHANGED <<normVars, extractVars, clientVars, mainVars, traceVars, scriptVars, pc>>

\* The page renders or re-renders the output container.
PageChanges ==
    /\ pc = "hook_loaded"
    /\ container \in {"absent", "empty_message"}
    /\ container' \in {"empty_message", "other_output"} \ {container}
    /\ hookFrame
    /\ UNCHANGED <<interval_active, ticks, lookups, emptyContent, fetching, latest, inserted>>

\* The interval callback, one second after the previous one.
Tick ==
    /\ pc = "hook_loaded"
    /\ interval_active
    /\ ticks < MaxTicks
    /\ ticks' = ticks + 1
    /\ LET found == container # "absent"
           empty == container = "empty_message"
       IN  /\ emptyContent' = IF found THEN Bool(empty) ELSE emptyContent
           /\ IF found /\ empty
              THEN lookups' = lookups + 1 /\ fetching' = "traces"
              ELSE lookups' = lookups /\ fetching' = fetching
           /\ interval_active' = ~clears_interval(found, empty)
    /\ hookFrame
    /\ UNCHANGED <<container, latest, inserted>>

\* The answer to fetch('/api/v1/llm-traces'), or its failure.
TracesArrive ==
    /\ pc = "hook_loaded"
    /\ fetching = "traces"
    /\ \/ \E traces \in TraceLists : fetching' = after_traces(traces)
       \/ fetching' = "done"
    /\ hookFrame
    /\ UNCHANGED <<container, interval_active, ticks, lookups, emptyContent, latest, inserted>>

\* The answer to the fetch of the latest trace: the content found, if
\* truthy, replaces what the container held.
DetailsArrive ==
    /\ pc = "hook_loaded"
    /\ fetching = "details"
    /\ \E trace \in TraceDetails :
          /\ latest' = trace
          /\ LET content == trace_content(trace) IN
             IF content.t # "raised" /\ js_truthy(content)
             THEN inserted' = content /\ container' = "fixed_output"
             ELSE inserted' = inserted /\ container' = container
    /\ fetching' = "done"
    /\ hookFrame
    /\ UNCHANGED <<interval_active, ticks, lookups, emptyContent>>

NextHook == PageChanges \/ Tick \/ TracesArrive \/ DetailsArrive

SpecHook == InitHook /\ [][NextHook]_vars

\* The callback runs in this step.
Ticking == ticks' = ticks + 1

\* The content the claim names for a choice: message.content when it is
\* not empty, else text when it is not empty.
PreferredContent(choice) ==
    LET message == js_get(choice, "message")
        content == IF message.t = "dict" THEN js_get(message, "content") ELSE Undefined
        text == js_get(choice, "text")
    IN  IF js_truthy(content) THEN content
        ELSE IF js_truthy(text) THEN text
        ELSE Null

\* C30: a callback that finds no container leaves the interval set; the
\* first one that finds it clears the interval, whatever the container
\* shows; no callback runs after that; the trace lookup starts at most once,
\* and only when the container showed the empty-output message; content is
\* inserted only after such a lookup, and it is the non-empty content of the
\* first choice of the latest trace, message.content before text.
C30_HookPollsUntilFound ==
    /\ [][Ticking => /\ interval_active
                     /\ interval_active' = (container = "absent")
                     /\ lookups' = lookups + (IF container = "empty_message" THEN 1 ELSE 0)]_vars
    /\ [][~interval_active => (ticks' = ticks /\ lookups' = lookups /\ ~interval_active')]_vars
    /\ [](lookups <= 1)
    /\ [](lookups = 1 => emptyContent = Bool(TRUE))
    /\ [](inserted # Unset =>
              /\ lookups = 1 /\ emptyContent = Bool(TRUE)
              /\ js_truthy(inserted)
              /\ latest.t = "dict"
              /\ inserted = PreferredContent(latest.m["outputs"].m["choices"].xs[1]))

C30_Witness ==
    /\ ticks = 2 /\ ~interval_active /\ lookups = 1
    /\ latest = Dict([outputs |-> Dict([choices |-> List(<<
                   Dict([text |-> Str("T"), message |-> Dict([content |-> Str("")])])>>)])])
    /\ inserted = Str("T")
    /\ container = "fixed_output"

=============================================================================
